---- MODULE Spec2Model ----
(***************************************************************************)
(* Model of fraud_detection_bn.py: the five-variable Bayesian network      *)
(* built by build_fraud_detection_model, the three diagnostic queries of   *)
(* the script, and calculate_expected_utility.                             *)
(*                                                                         *)
(* Numbers.  Every probability literal of the source is a finite decimal.  *)
(* A table of decimals is held as integer mantissas with one shared        *)
(* decimal exponent: the value of an entry is vals / 10^exp.  A normalised *)
(* distribution is held as vals / total.  Arithmetic is exact; the         *)
(* rounding of Python floats is not modelled.                              *)
(* Variable states are indexed 0 = 'False', 1 = 'True' (source line 26).   *)
(*                                                                         *)
(* The script delegates validation (model.check_model) and inference       *)
(* (VariableElimination.query) to pgmpy.  Their behaviour is modelled      *)
(* after the design specification: the factor algebra (4.1), the four      *)
(* ordered validation checks (4.2) and the elimination procedure (4.3).    *)
(***************************************************************************)
EXTENDS Integers, Sequences, FiniteSets, TLC

VARIABLES pc, defn, model, phase, query, order, factors, eliminated,
          q_prior, q_fp, q_fp_ip, arg, res

vars == <<pc, defn, model, phase, query, order, factors, eliminated,
          q_prior, q_fp, q_fp_ip, arg, res>>

None == "none"

\* What the variables hold before the script has assigned them.
NoModel == [ edges |-> {}, nodes |-> {}, cpds |-> {} ]
NoResult == [ scope |-> {}, vals |-> <<>>, total |-> 0 ]
NoArg == [ p |-> [n |-> 0, d |-> 1], cost_fraud |-> 0, cost_block |-> 0, cost_ok |-> 0 ]
NoReturn == [ raised |-> None, eu_allow |-> [n |-> 0, d |-> 1], eu_block |-> 0,
              decision |-> None ]

Range(s) == {s[i] : i \in DOMAIN s}

RECURSIVE Pow10(_)
Pow10(n) == IF n = 0 THEN 1 ELSE 10 * Pow10(n - 1)

RECURSIVE SumSeq(_)
SumSeq(s) == IF s = <<>> THEN 0 ELSE Head(s) + SumSeq(Tail(s))

Abs(x) == IF x < 0 THEN -x ELSE x

(***************************************************************************)
(* The network definition of build_fraud_detection_model.                  *)
(***************************************************************************)
\* Mutant: the edge Trav -> FP entered backwards.
edges_reversed ==
    { <<"Trav", "Fraud">>, <<"FP", "Trav">>, <<"Fraud", "FP">>,
      <<"OC", "IP">>, <<"Fraud", "IP">> }

edges ==
    { <<"Trav", "Fraud">>, <<"Trav", "FP">>, <<"Fraud", "FP">>,
      <<"OC", "IP">>, <<"Fraud", "IP">> }

cpd_trav ==
    [ variable |-> "Trav", variable_card |-> 2,
      values |-> << <<95>>, <<5>> >>, exp |-> 2,
      evidence |-> <<>>, evidence_card |-> <<>> ]

cpd_oc ==
    [ variable |-> "OC", variable_card |-> 2,
      values |-> << <<30>>, <<70>> >>, exp |-> 2,
      evidence |-> <<>>, evidence_card |-> <<>> ]

\* Mutant: the two columns of P(Fraud | Trav) exchanged.
cpd_fraud_swapped ==
    [ variable |-> "Fraud", variable_card |-> 2,
      values |-> << <<990, 996>>,
                    <<10, 4>> >>, exp |-> 3,
      evidence |-> <<"Trav">>, evidence_card |-> <<2>> ]

cpd_fraud ==
    [ variable |-> "Fraud", variable_card |-> 2,
      values |-> << <<996, 990>>,
                    <<4, 10>> >>, exp |-> 3,
      evidence |-> <<"Trav">>, evidence_card |-> <<2>> ]

\* Mutant: the columns of P(FP | Trav, Fraud) written with Trav varying
\* fastest.
cpd_fp_first_fastest ==
    [ variable |-> "FP", variable_card |-> 2,
      values |-> << <<99, 10, 90, 10>>,
                    <<1, 90, 10, 90>> >>, exp |-> 2,
      evidence |-> <<"Trav", "Fraud">>, evidence_card |-> <<2, 2>> ]

cpd_fp ==
    [ variable |-> "FP", variable_card |-> 2,
      values |-> << <<99, 90, 10, 10>>,
                    <<1, 10, 90, 90>> >>, exp |-> 2,
      evidence |-> <<"Trav", "Fraud">>, evidence_card |-> <<2, 2>> ]

\* Mutant: 0.01 typed for 0.001 in the first column of P(IP | OC, Fraud).
cpd_ip_typo ==
    [ variable |-> "IP", variable_card |-> 2,
      values |-> << <<999, 989, 990, 980>>,
                    <<10, 11, 10, 20>> >>, exp |-> 3,
      evidence |-> <<"OC", "Fraud">>, evidence_card |-> <<2, 2>> ]

cpd_ip ==
    [ variable |-> "IP", variable_card |-> 2,
      values |-> << <<999, 989, 990, 980>>,
                    <<1, 11, 10, 20>> >>, exp |-> 3,
      evidence |-> <<"OC", "Fraud">>, evidence_card |-> <<2, 2>> ]

\* The CPDs handed to model.add_cpds, in the order of the call.
source_cpds == <<cpd_trav, cpd_oc, cpd_fraud, cpd_fp, cpd_ip>>

(***************************************************************************)
(* Faulty definitions, each the source definition with one authoring       *)
(* error.  They exercise the failing branch of the validation at the end   *)
(* of build_fraud_detection_model.                                         *)
(***************************************************************************)
\* P(IP | OC=False, Fraud=False) sums to 0.9 instead of 1.
cpd_ip_badsum ==
    [ cpd_ip EXCEPT !.values = << <<899, 989, 990, 980>>,
                                  <<1, 11, 10, 20>> >> ]

\* FP declares only Trav as evidence although Fraud is a parent too.
cpd_fp_mismatch ==
    [ cpd_fp EXCEPT !.values = << <<99, 10>>, <<1, 90>> >>,
                    !.evidence = <<"Trav">>, !.evidence_card = <<2>> ]

Defs == {"src", "badsum", "mismatch", "nocpd", "cyclic"}

def_edges(d) ==
    IF d = "cyclic" THEN edges \cup { <<"FP", "Trav">> } ELSE edges

def_cpds(d) ==
    CASE d = "badsum"   -> <<cpd_trav, cpd_oc, cpd_fraud, cpd_fp, cpd_ip_badsum>>
      [] d = "mismatch" -> <<cpd_trav, cpd_oc, cpd_fraud, cpd_fp_mismatch, cpd_ip>>
      [] d = "nocpd"    -> <<cpd_trav, cpd_fraud, cpd_fp, cpd_ip>>
      [] OTHER          -> source_cpds

(***************************************************************************)
(* BayesianNetwork(edges) and model.add_cpds.                              *)
(***************************************************************************)
nodes_of(es) == {e[1] : e \in es} \cup {e[2] : e \in es}

BayesianNetwork(es) == [ edges |-> es, nodes |-> nodes_of(es), cpds |-> {} ]

\* add_cpds: a CPD replaces one already attached to the same variable.
RECURSIVE add_cpds(_, _)
add_cpds(m, cs) ==
    IF cs = <<>> THEN m
    ELSE add_cpds(
           [ m EXCEPT !.cpds =
               {c \in m.cpds : c.variable # Head(cs).variable} \cup {Head(cs)} ],
           Tail(cs))

get_parents(m, v) == {e[1] : e \in {x \in m.edges : x[2] = v}}

get_cpds(m, v) == {c \in m.cpds : c.variable = v}

(***************************************************************************)
(* TabularCPD: a table given as one row per state of the variable and one  *)
(* column per combination of evidence states.  The column of a combination *)
(* is its mixed-radix index with the evidence variable listed last varying *)
(* fastest (the layout the comments above cpd_fp and cpd_ip describe).     *)
(***************************************************************************)
States(card) == 0 .. (card - 1)

RECURSIVE ColumnIndex(_, _, _)
ColumnIndex(evidence, evidence_card, a) ==
    IF evidence = <<>> THEN 0
    ELSE LET n == Len(evidence)
         IN  ColumnIndex(SubSeq(evidence, 1, n - 1),
                         SubSeq(evidence_card, 1, n - 1), a)
               * evidence_card[n] + a[evidence[n]]

\* P(variable = s | evidence states a), as a mantissa over 10^c.exp.
cpd_value(c, s, a) == c.values[s + 1][ColumnIndex(c.evidence, c.evidence_card, a) + 1]

RECURSIVE ProdSeq(_)
ProdSeq(s) == IF s = <<>> THEN 1 ELSE Head(s) * ProdSeq(Tail(s))

NumColumns(c) == ProdSeq(c.evidence_card)

\* The whole column j of the table, top to bottom.
Column(c, j) == [r \in 1 .. Len(c.values) |-> c.values[r][j]]

(***************************************************************************)
(* Factors.  A factor is a scope (a set of variables) and a table over the *)
(* assignments of the scope; all variables of the network are binary.      *)
(***************************************************************************)
Card(v) == 2

Assignments(scope) == [scope -> States(2)]

Restrict(a, scope) == [v \in scope |-> a[v]]

Extend(a, v, s) == [u \in (DOMAIN a) \cup {v} |-> IF u = v THEN s ELSE a[u]]

\* The least exponent at which every entry is still an integer.
RECURSIVE Canon(_)
Canon(f) ==
    IF f.exp > 0 /\ \A a \in DOMAIN f.vals : f.vals[a] % 10 = 0
    THEN Canon([ f EXCEPT !.vals = [a \in DOMAIN f.vals |-> f.vals[a] \div 10],
                          !.exp = f.exp - 1 ])
    ELSE f

to_factor(c) ==
    LET scope == {c.variable} \cup Range(c.evidence)
    IN  Canon([ scope |-> scope,
                vals  |-> [a \in Assignments(scope) |-> cpd_value(c, a[c.variable], a)],
                exp   |-> c.exp ])

product(f, g) ==
    LET scope == f.scope \cup g.scope
    IN  Canon([ scope |-> scope,
                vals  |-> [a \in Assignments(scope) |->
                             f.vals[Restrict(a, f.scope)] * g.vals[Restrict(a, g.scope)]],
                exp   |-> f.exp + g.exp ])

RECURSIVE SumStates(_, _, _, _)
SumStates(f, a, v, n) ==
    IF n = 0 THEN 0
    ELSE f.vals[Extend(a, v, n - 1)] + SumStates(f, a, v, n - 1)

sum_out(f, v) ==
    LET scope == f.scope \ {v}
    IN  Canon([ scope |-> scope,
                vals  |-> [a \in Assignments(scope) |-> SumStates(f, a, v, Card(v))],
                exp   |-> f.exp ])

reduce(f, v, s) ==
    LET scope == f.scope \ {v}
    IN  Canon([ scope |-> scope,
                vals  |-> [a \in Assignments(scope) |-> f.vals[Extend(a, v, s)]],
                exp   |-> f.exp ])

RECURSIVE SumOver(_, _)
SumOver(vals, as) ==
    IF as = {} THEN 0
    ELSE LET a == CHOOSE x \in as : TRUE
         IN  vals[a] + SumOver(vals, as \ {a})

Total(f) == SumOver(f.vals, DOMAIN f.vals)

\* The normalised table: the probability of assignment a is vals[a] / total.
normalize(f) == [ scope |-> f.scope, vals |-> f.vals, total |-> Total(f) ]

Unit == [ scope |-> {}, vals |-> [a \in Assignments({}) |-> 1], exp |-> 0 ]

RECURSIVE factor_product(_)
factor_product(fs) ==
    IF fs = <<>> THEN Unit ELSE product(Head(fs), factor_product(Tail(fs)))

(***************************************************************************)
(* Validation of a network: the four checks, in order, first failure wins. *)
(***************************************************************************)
\* Kahn's topological sort: remove nodes without incoming edges until stuck.
RECURSIVE Unsorted(_, _)
Unsorted(ns, es) ==
    LET free == {n \in ns : ~ \E e \in es : e[2] = n}
    IN  IF free = {} THEN ns
        ELSE Unsorted(ns \ free, {e \in es : e[1] \notin free})

IsDAG(m) == Unsorted(m.nodes, m.edges) = {}

HasOneCPD(m, v) == Cardinality(get_cpds(m, v)) = 1

EvidenceMatches(m, c) ==
    /\ Range(c.evidence) = get_parents(m, c.variable)
    /\ Len(c.evidence) = Cardinality(Range(c.evidence))
    /\ Len(c.evidence_card) = Len(c.evidence)
    /\ \A i \in DOMAIN c.evidence : c.evidence_card[i] = Card(c.evidence[i])
    /\ c.variable_card = Card(c.variable)
    /\ Len(c.values) = c.variable_card
    /\ \A r \in DOMAIN c.values : Len(c.values[r]) = NumColumns(c)

\* 1 / tolerance of the column-sum check.
TolInv == 1000000

ColumnSumsToOne(c, j) ==
    Abs(SumSeq(Column(c, j)) - Pow10(c.exp)) * TolInv <= Pow10(c.exp)

IsValidCPD(c) == \A j \in 1 .. NumColumns(c) : ColumnSumsToOne(c, j)

check_model(m) ==
    IF ~ IsDAG(m) THEN "StructuralError"
    ELSE IF \E v \in m.nodes : ~ HasOneCPD(m, v) THEN "MissingCPD"
    ELSE IF \E c \in m.cpds : ~ EvidenceMatches(m, c) THEN "SchemaMismatch"
    ELSE IF \E c \in m.cpds : ~ IsValidCPD(c) THEN "InvalidDistribution"
    ELSE "ok"

(***************************************************************************)
(* The elimination engine behind infer.query(variables, evidence).         *)
(***************************************************************************)
RECURSIVE SetToSeq(_)
SetToSeq(S) ==
    IF S = {} THEN <<>>
    ELSE LET x == CHOOSE y \in S : TRUE IN <<x>> \o SetToSeq(S \ {x})

\* Every ordering of the set S.
Orders(S) == {s \in [1 .. Cardinality(S) -> S] : Range(s) = S}

RECURSIVE reduce_all(_, _, _)
reduce_all(f, evidence, vs) ==
    IF vs = {} THEN f
    ELSE LET v == CHOOSE x \in vs : TRUE
         IN  reduce_all(reduce(f, v, evidence[v]), evidence, vs \ {v})

\* Step 1: every CPD, reduced on the observed states of its scope.
working_factors(m, evidence) ==
    LET cs == SetToSeq(m.cpds)
    IN  [i \in 1 .. Len(cs) |->
           reduce_all(to_factor(cs[i]), evidence,
                      to_factor(cs[i]).scope \cap DOMAIN evidence)]

\* Step 2: the variables to eliminate.
to_eliminate(m, q) == (m.nodes \ q.variables) \ DOMAIN q.evidence

Mentions(f, v) == v \in f.scope

\* Mutant: the factors that mention v are left in the working list.
eliminate_keep(fs, v) ==
    LET hit == SelectSeq(fs, LAMBDA f : v \in f.scope)
    IN  IF hit = <<>> THEN fs
        ELSE Append(fs, sum_out(factor_product(hit), v))

\* Step 3, for one variable: the factors that mention v are replaced by
\* their product with v summed out.
eliminate(fs, v) ==
    LET hit  == SelectSeq(fs, LAMBDA f : Mentions(f, v))
        rest == SelectSeq(fs, LAMBDA f : ~ Mentions(f, v))
    IN  IF hit = <<>> THEN rest
        ELSE Append(rest, sum_out(factor_product(hit), v))

\* Step 4: the product of what is left, normalised.
finalize(fs) == normalize(factor_product(fs))

(***************************************************************************)
(* calculate_expected_utility.  p is the rational p.n / p.d with p.d > 0;  *)
(* eu_allow is returned over the same denominator.                         *)
(***************************************************************************)
cost_fraud_default == -1000
cost_block_default == -10
cost_ok_default == 0

\* Mutant: a tie is resolved to BLOCK.
calculate_expected_utility_tie_blocks(p, cost_fraud, cost_block, cost_ok) ==
    LET eu_allow == p.n * cost_fraud + (p.d - p.n) * cost_ok
        eu_block == cost_block
    IN  [ raised   |-> None,
          eu_allow |-> [n |-> eu_allow, d |-> p.d],
          eu_block |-> eu_block,
          decision |-> IF eu_block * p.d >= eu_allow THEN "BLOCK" ELSE "ALLOW" ]

\* Mutant: the comparison the wrong way round.
calculate_expected_utility_inverted(p, cost_fraud, cost_block, cost_ok) ==
    LET eu_allow == p.n * cost_fraud + (p.d - p.n) * cost_ok
        eu_block == cost_block
    IN  [ raised   |-> None,
          eu_allow |-> [n |-> eu_allow, d |-> p.d],
          eu_block |-> eu_block,
          decision |-> IF eu_block * p.d < eu_allow THEN "BLOCK" ELSE "ALLOW" ]

calculate_expected_utility(p, cost_fraud, cost_block, cost_ok) ==
    LET eu_allow == p.n * cost_fraud + (p.d - p.n) * cost_ok
        eu_block == cost_block
    IN  [ raised   |-> None,
          eu_allow |-> [n |-> eu_allow, d |-> p.d],
          eu_block |-> eu_block,
          decision |-> IF eu_block * p.d > eu_allow THEN "BLOCK" ELSE "ALLOW" ]

(***************************************************************************)
(* The script: build the network, validate it, run the three queries,      *)
(* decide on the posterior given a foreign purchase.                       *)
(***************************************************************************)
QueryPcs == {"q_prior", "q_fp", "q_fp_ip"}

\* The three infer.query calls of the script.
ScriptQuery(at) ==
    CASE at = "q_prior"  -> [variables |-> {"Fraud"}, evidence |-> <<>>]
      [] at = "q_fp"     -> [variables |-> {"Fraud"}, evidence |-> [v \in {"FP"} |-> 1]]
      [] at = "q_fp_ip"  -> [variables |-> {"Fraud"},
                             evidence |-> [v \in {"FP", "IP"} |-> 1]]

NextPc(at) ==
    CASE at = "q_prior" -> "q_fp"
      [] at = "q_fp"    -> "q_fp_ip"
      [] at = "q_fp_ip" -> "decide"

\* q.values[1]: the probability of Fraud = 'True', as a rational.
ProbTrue(q) == [n |-> q.vals[[v \in {"Fraud"} |-> 1]], d |-> q.total]

Init ==
    /\ pc = "build"
    /\ defn \in Defs
    /\ model = NoModel
    /\ phase = "idle"
    /\ query = None
    /\ order = <<>>
    /\ factors = <<>>
    /\ eliminated = <<>>
    /\ q_prior = NoResult
    /\ q_fp = NoResult
    /\ q_fp_ip = NoResult
    /\ arg = NoArg
    /\ res = NoReturn

\* Lines 17-87: the graph, the five tables, add_cpds.
Assemble ==
    /\ pc = "build"
    /\ model' = add_cpds(BayesianNetwork(def_edges(defn)), def_cpds(defn))
    /\ pc' = "check"
    /\ UNCHANGED <<defn, phase, query, order, factors, eliminated,
                   q_prior, q_fp, q_fp_ip, arg, res>>

\* Mutant: the assertion compiled away.
AssertStripped(m) == TRUE

\* Line 88: assert model.check_model().
AssertPasses(m) == check_model(m) = "ok"

Validate ==
    /\ pc = "check"
    /\ pc' = IF AssertPasses(model) THEN "infer" ELSE "error"
    /\ UNCHANGED <<defn, model, phase, query, order, factors, eliminated,
                   q_prior, q_fp, q_fp_ip, arg, res>>

\* Line 119: infer = VariableElimination(model).
MakeInference ==
    /\ pc = "infer"
    /\ pc' = "q_prior"
    /\ UNCHANGED <<defn, model, phase, query, order, factors, eliminated,
                   q_prior, q_fp, q_fp_ip, arg, res>>

\* Lines 129, 134, 140: a query begins; the elimination order is any
\* ordering of the variables to eliminate.
StartQuery ==
    /\ pc \in QueryPcs
    /\ phase = "idle"
    /\ query' = ScriptQuery(pc)
    /\ factors' = working_factors(model, query'.evidence)
    /\ order' \in Orders(to_eliminate(model, query'))
    /\ eliminated' = <<>>
    /\ phase' = "elim"
    /\ UNCHANGED <<pc, defn, model, q_prior, q_fp, q_fp_ip, arg, res>>

Eliminate ==
    /\ phase = "elim"
    /\ order # <<>>
    /\ factors' = eliminate(factors, Head(order))
    /\ eliminated' = Append(eliminated, Head(order))
    /\ order' = Tail(order)
    /\ UNCHANGED <<pc, defn, model, phase, query, q_prior, q_fp, q_fp_ip, arg, res>>

Finalize ==
    /\ phase = "elim"
    /\ order = <<>>
    /\ LET r == finalize(factors)
       IN  IF r.total = 0
           THEN /\ pc' = "error"
                /\ UNCHANGED <<q_prior, q_fp, q_fp_ip>>
           ELSE /\ pc' = NextPc(pc)
                /\ q_prior' = IF pc = "q_prior" THEN r ELSE q_prior
                /\ q_fp' = IF pc = "q_fp" THEN r ELSE q_fp
                /\ q_fp_ip' = IF pc = "q_fp_ip" THEN r ELSE q_fp_ip
    /\ phase' = "idle"
    /\ UNCHANGED <<defn, model, query, order, factors, eliminated, arg, res>>

\* Line 149: calculate_expected_utility(prob_fraud_given_fp), default costs.
Decide ==
    /\ pc = "decide"
    /\ arg' = [ p |-> ProbTrue(q_fp), cost_fraud |-> cost_fraud_default,
                cost_block |-> cost_block_default, cost_ok |-> cost_ok_default ]
    /\ res' = calculate_expected_utility(arg'.p, arg'.cost_fraud,
                                         arg'.cost_block, arg'.cost_ok)
    /\ pc' = "done"
    /\ UNCHANGED <<defn, model, phase, query, order, factors, eliminated,
                   q_prior, q_fp, q_fp_ip>>

Next ==
    \/ Assemble
    \/ Validate
    \/ MakeInference
    \/ StartQuery
    \/ Eliminate
    \/ Finalize
    \/ Decide

Spec == Init /\ [][Next]_vars

\* The script runs to its end: no step waits on anything.
FairSpec == Spec /\ WF_vars(Next)

(***************************************************************************)
(* calculate_expected_utility on its own: called once on any probability   *)
(* of a grid (values outside [0, 1] included) and any cost triple.         *)
(***************************************************************************)
CoarseDen == 4
MaxOut == 2
FineDen == 10000
Window == 2
MaxCost == 1

ThresholdNum == FineDen \div 100

Probs ==
    {[n |-> k, d |-> CoarseDen] : k \in (-MaxOut) .. (CoarseDen + MaxOut)}
      \cup {[n |-> k, d |-> FineDen] :
              k \in (ThresholdNum - Window) .. (ThresholdNum + Window)}

Costs == (-MaxCost) .. MaxCost

Inputs ==
    {[p |-> q, cost_fraud |-> cf, cost_block |-> cb, cost_ok |-> ck] :
        q \in Probs, cf \in Costs, cb \in Costs, ck \in Costs}
      \cup {[p |-> q, cost_fraud |-> cost_fraud_default,
             cost_block |-> cost_block_default, cost_ok |-> cost_ok_default] :
              q \in Probs}

InitEU ==
    /\ pc = "call"
    /\ arg \in Inputs
    /\ res = NoReturn
    /\ defn = "src"
    /\ model = NoModel
    /\ phase = "idle"
    /\ query = None
    /\ order = <<>>
    /\ factors = <<>>
    /\ eliminated = <<>>
    /\ q_prior = NoResult
    /\ q_fp = NoResult
    /\ q_fp_ip = NoResult

CallEU ==
    /\ pc = "call"
    /\ res' = calculate_expected_utility(arg.p, arg.cost_fraud,
                                         arg.cost_block, arg.cost_ok)
    /\ pc' = "returned"
    /\ UNCHANGED <<defn, model, phase, query, order, factors, eliminated,
                   q_prior, q_fp, q_fp_ip, arg>>

NextEU == CallEU

SpecEU == InitEU /\ [][NextEU]_vars

(***************************************************************************)
(* Properties.                                                             *)
(***************************************************************************)
InUnit(p) == 0 <= p.n /\ p.n <= p.d

Returned == pc = "returned"

\* The assembled network of the source definition.
SourceBuilt == defn = "src" /\ model # NoModel

CpdOf(v) == CHOOSE c \in model.cpds : c.variable = v

\* C1: for every p in [0, 1] and every cost triple the function returns
\* EU_allow = p*cost_fraud + (1-p)*cost_ok, EU_block = cost_block, and
\* BLOCK exactly when EU_block > EU_allow; a tie gives ALLOW.
C1_DecisionRule ==
    (Returned /\ InUnit(arg.p)) =>
        /\ res.eu_allow.d = arg.p.d
        /\ res.eu_allow.n =
             arg.p.n * arg.cost_fraud + arg.p.d * arg.cost_ok - arg.p.n * arg.cost_ok
        /\ res.eu_block = arg.cost_block
        /\ res.decision \in {"BLOCK", "ALLOW"}
        /\ res.decision = "BLOCK" <=> res.eu_block * res.eu_allow.d > res.eu_allow.n
        /\ res.eu_block * res.eu_allow.d = res.eu_allow.n => res.decision = "ALLOW"

\* A tie between the two utilities that is not the all-zero cost model.
C1_Witness ==
    /\ Returned
    /\ InUnit(arg.p)
    /\ arg.cost_fraud # 0
    /\ arg.cost_block * arg.p.d =
         arg.p.n * arg.cost_fraud + (arg.p.d - arg.p.n) * arg.cost_ok
    /\ res.decision = "ALLOW"

\* C2: p outside [0, 1] yields the InvalidProbability error and no triple;
\* p inside [0, 1] never yields an error.
C2_RangeChecked ==
    Returned =>
        IF InUnit(arg.p) THEN res.raised = None
        ELSE res.raised = "InvalidProbability" /\ res.decision = None

DefaultCosts ==
    arg.cost_fraud = -1000 /\ arg.cost_block = -10 /\ arg.cost_ok = 0

\* C3: with costs (-1000, -10, 0) and p in [0, 1] the action is ALLOW when
\* p <= 0.01 and BLOCK when p > 0.01; 0.0099 gives ALLOW, 0.0101 BLOCK.
C3_Threshold ==
    (Returned /\ DefaultCosts /\ InUnit(arg.p)) =>
        /\ arg.p.n * 100 <= arg.p.d => res.decision = "ALLOW"
        /\ arg.p.n * 100 > arg.p.d => res.decision = "BLOCK"
        /\ arg.p.n * 10000 = 99 * arg.p.d => res.decision = "ALLOW"
        /\ arg.p.n * 10000 = 101 * arg.p.d => res.decision = "BLOCK"

\* The call at the flip point itself, p = 0.01.
C3_Witness ==
    /\ Returned
    /\ DefaultCosts
    /\ arg.p.n * 100 = arg.p.d
    /\ res.decision = "ALLOW"

\* C4: in each of the five tables of the source every column sums to 1
\* within 1e-6.
C4_ColumnsSumToOne ==
    SourceBuilt =>
        /\ {c.variable : c \in model.cpds} = {"Trav", "OC", "Fraud", "FP", "IP"}
        /\ \A c \in model.cpds : \A j \in 1 .. Len(c.values[1]) :
             Abs(c.values[1][j] + c.values[2][j] - Pow10(c.exp)) * 1000000
               <= Pow10(c.exp)

\* The source network, assembled and past its validation.
C4_Witness ==
    /\ SourceBuilt
    /\ pc = "infer"
    /\ Cardinality(model.cpds) = 5
    /\ Len(CpdOf("IP").values[1]) = 4

\* C5: the built network has the five edges, is acyclic, has exactly one
\* CPD per variable, and every CPD's evidence is the variable's parent set
\* with cardinality 2 per parent.
C5_Structure ==
    SourceBuilt =>
        /\ model.edges = { <<"Trav", "Fraud">>, <<"Trav", "FP">>, <<"Fraud", "FP">>,
                           <<"OC", "IP">>, <<"Fraud", "IP">> }
        /\ model.nodes = {"Trav", "OC", "Fraud", "FP", "IP"}
        /\ IsDAG(model)
        /\ \A v \in model.nodes : Cardinality({c \in model.cpds : c.variable = v}) = 1
        /\ \A c \in model.cpds :
             /\ Range(c.evidence) = {e[1] : e \in {x \in model.edges : x[2] = c.variable}}
             /\ Len(c.evidence) = Cardinality(Range(c.evidence))
             /\ c.evidence_card = [i \in DOMAIN c.evidence |-> 2]

\* The source network with its two-parent tables attached.
C5_Witness ==
    /\ SourceBuilt
    /\ pc = "infer"
    /\ Range(CpdOf("FP").evidence) = {"Trav", "Fraud"}
    /\ Range(CpdOf("IP").evidence) = {"OC", "Fraud"}

\* C6: the query for Fraud without evidence returns P(Fraud=True) = 0.0043
\* and P(Fraud=False) = 0.9957 within 1e-6, whatever the elimination order.
C6_PriorMarginal ==
    (defn = "src" /\ q_prior # NoResult) =>
        LET t == q_prior.vals[[v \in {"Fraud"} |-> 1]]
            f == q_prior.vals[[v \in {"Fraud"} |-> 0]]
        IN  /\ q_prior.scope = {"Fraud"}
            /\ q_prior.total > 0
            /\ Abs(t * 10000 - 43 * q_prior.total) <= q_prior.total \div 100
            /\ Abs(f * 10000 - 9957 * q_prior.total) <= q_prior.total \div 100

\* The prior query answered after eliminating Trav first and IP last.
C6_Witness ==
    /\ defn = "src"
    /\ pc = "q_fp"
    /\ phase = "idle"
    /\ q_prior # NoResult
    /\ eliminated = <<"Trav", "FP", "OC", "IP">>

Querying ==
    \/ pc \in QueryPcs \cup {"decide", "done"}
    \/ phase # "idle"
    \/ q_prior # NoResult \/ q_fp # NoResult \/ q_fp_ip # NoResult

Scopes == {factors[i].scope : i \in DOMAIN factors}

\* C8: every query's elimination loop takes one step per variable of E in
\* the chosen order and exhausts E; no factor ever mentions an eliminated
\* or observed variable, and at the end every scope lies within query_vars.
C8_Elimination ==
    /\ [](phase = "elim" =>
            /\ Range(eliminated) \cup Range(order) = to_eliminate(model, query)
            /\ Len(eliminated) + Len(order) = Cardinality(to_eliminate(model, query))
            /\ \A sc \in Scopes :
                 sc \cap (Range(eliminated) \cup DOMAIN query.evidence) = {}
            /\ order = <<>> => \A sc \in Scopes : sc \subseteq query.variables)
    /\ [][(phase = "elim" /\ phase' = "elim") =>
            (order # <<>> /\ order' = Tail(order)
               /\ eliminated' = Append(eliminated, Head(order)))]_vars
    /\ (phase = "elim") ~> (phase = "elim" /\ order = <<>>)

\* The loop of the query given FP = True, finished, with one factor left
\* from Trav's elimination and one from OC's and IP's.
C8_Witness ==
    /\ defn = "src"
    /\ pc = "q_fp"
    /\ phase = "elim"
    /\ order = <<>>
    /\ Len(eliminated) = 3
    /\ Len(factors) = 2
    /\ Scopes = {{"Fraud"}}

\* The entry of table c for the variable true under parent states a, as a
\* multiple of 1/1000.
Milli(c, a) == cpd_value(c, 1, a) * Pow10(3 - c.exp)

\* C9: with the last evidence variable varying fastest the columns of the
\* FP and IP tables carry the probabilities the comments state.
C9_ColumnLayout ==
    SourceBuilt =>
        /\ Milli(CpdOf("IP"), [v \in {"OC", "Fraud"} |-> IF v = "OC" THEN 1 ELSE 0]) = 10
        /\ Milli(CpdOf("IP"), [v \in {"OC", "Fraud"} |-> 1]) = 20
        /\ Milli(CpdOf("IP"), [v \in {"OC", "Fraud"} |-> 0]) = 1
        /\ Milli(CpdOf("IP"), [v \in {"OC", "Fraud"} |-> IF v = "OC" THEN 0 ELSE 1]) = 11
        /\ Milli(CpdOf("FP"), [v \in {"Trav", "Fraud"} |-> IF v = "Trav" THEN 1 ELSE 0]) = 900
        /\ Milli(CpdOf("FP"), [v \in {"Trav", "Fraud"} |-> 1]) = 900
        /\ Milli(CpdOf("FP"), [v \in {"Trav", "Fraud"} |-> 0]) = 10
        /\ Milli(CpdOf("FP"), [v \in {"Trav", "Fraud"} |-> IF v = "Trav" THEN 0 ELSE 1]) = 100

\* The validated source network, its FP and IP tables four columns wide
\* with Fraud listed last.
C9_Witness ==
    /\ SourceBuilt
    /\ pc = "infer"
    /\ CpdOf("FP").evidence = <<"Trav", "Fraud">>
    /\ CpdOf("IP").evidence = <<"OC", "Fraud">>
    /\ NumColumns(CpdOf("FP")) = 4

\* C10: the posterior of Fraud given FP = True is 0.00083 / 0.054842, above
\* 0.01, and the decision on it with the default costs is BLOCK, with
\* EU_allow < EU_block = -10.
C10_ScriptDecision ==
    (defn = "src" /\ pc = "done") =>
        /\ ProbTrue(q_fp).n * 54842 = 830 * ProbTrue(q_fp).d
        /\ ProbTrue(q_fp).n * 100 > ProbTrue(q_fp).d
        /\ arg.p = ProbTrue(q_fp)
        /\ arg.cost_fraud = -1000 /\ arg.cost_block = -10 /\ arg.cost_ok = 0
        /\ res.decision = "BLOCK"
        /\ res.eu_block = -10
        /\ res.eu_allow.n < res.eu_block * res.eu_allow.d

\* The script at its end, the decision taken.
C10_Witness ==
    /\ defn = "src"
    /\ pc = "done"
    /\ q_fp # NoResult
    /\ res.decision = "BLOCK"

====
